---- MODULE Spec2Model ----
(***************************************************************************)
(* Model of the VoltDB catalog code generator (src/src/catgen/catalog.py). *)
(*                                                                         *)
(* Text is modelled as a sequence of one-character strings, so that        *)
(* x[-1], x[:-1], rstrip, lower and capitalize are computed as Python      *)
(* computes them.  An emitted line is a record naming the write() call     *)
(* that produced it and the values interpolated into its template.         *)
(***************************************************************************)
EXTENDS Integers, Sequences, FiniteSets, TLC

VARIABLES
    classes,    \* the parsed class descriptors (catalog.py:542)
    pc,         \* position of the run inside main / genjava / gencpp
    ci,         \* index of the class the current emitter loop is at
    javaTree,   \* out/javasrc: cleared flag, copied support files, files
    cppTree,    \* out/cppsrc: the same
    exc,        \* the uncaught exception that ended the run, or "none"
    x,          \* argument of a direct call of a type mapper
    typified,   \* result of that call
    cli         \* a run of CLIParser.parse (voltcli/cli.py)

vars == <<classes, pc, ci, javaTree, cppTree, exc, x, typified, cli>>

----------------------------------------------------------------------------
(* Bounds of the explored inputs. *)

MaxFields == 2
MaxTokLen == 3
MaxOptions == 2
MaxArgs == 1
MaxWords == 3

----------------------------------------------------------------------------
(* Text helpers. *)

Last(s) == s[Len(s)]

ButLast(s) == SubSeq(s, 1, Len(s) - 1)

RECURSIVE rstrip(_, _)
rstrip(s, ch) ==
    IF Len(s) > 0 /\ Last(s) = ch THEN rstrip(ButLast(s), ch) ELSE s

(* str.lower and str.upper on one character: every ASCII letter is         *)
(* converted, every other character is kept.                               *)
LowerChar(c) ==
    CASE c = "A" -> "a"
      [] c = "B" -> "b"
      [] c = "C" -> "c"
      [] c = "D" -> "d"
      [] c = "E" -> "e"
      [] c = "F" -> "f"
      [] c = "G" -> "g"
      [] c = "H" -> "h"
      [] c = "I" -> "i"
      [] c = "J" -> "j"
      [] c = "K" -> "k"
      [] c = "L" -> "l"
      [] c = "M" -> "m"
      [] c = "N" -> "n"
      [] c = "O" -> "o"
      [] c = "P" -> "p"
      [] c = "Q" -> "q"
      [] c = "R" -> "r"
      [] c = "S" -> "s"
      [] c = "T" -> "t"
      [] c = "U" -> "u"
      [] c = "V" -> "v"
      [] c = "W" -> "w"
      [] c = "X" -> "x"
      [] c = "Y" -> "y"
      [] c = "Z" -> "z"
      [] OTHER -> c

UpperChar(c) ==
    CASE c = "a" -> "A"
      [] c = "b" -> "B"
      [] c = "c" -> "C"
      [] c = "d" -> "D"
      [] c = "e" -> "E"
      [] c = "f" -> "F"
      [] c = "g" -> "G"
      [] c = "h" -> "H"
      [] c = "i" -> "I"
      [] c = "j" -> "J"
      [] c = "k" -> "K"
      [] c = "l" -> "L"
      [] c = "m" -> "M"
      [] c = "n" -> "N"
      [] c = "o" -> "O"
      [] c = "p" -> "P"
      [] c = "q" -> "Q"
      [] c = "r" -> "R"
      [] c = "s" -> "S"
      [] c = "t" -> "T"
      [] c = "u" -> "U"
      [] c = "v" -> "V"
      [] c = "w" -> "W"
      [] c = "x" -> "X"
      [] c = "y" -> "Y"
      [] c = "z" -> "Z"
      [] OTHER -> c

lower(s) == [i \in 1..Len(s) |-> LowerChar(s[i])]

upper(s) == [i \in 1..Len(s) |-> UpperChar(s[i])]

capitalize(s) ==
    [i \in 1..Len(s) |-> IF i = 1 THEN UpperChar(s[i]) ELSE LowerChar(s[i])]

RECURSIVE Flatten(_)
Flatten(ss) ==
    IF Len(ss) = 0 THEN <<>> ELSE Head(ss) \o Flatten(Tail(ss))

str_string == <<"s", "t", "r", "i", "n", "g">>
str_int == <<"i", "n", "t">>
str_bool == <<"b", "o", "o", "l">>
str_String == <<"S", "t", "r", "i", "n", "g">>
str_Integer == <<"I", "n", "t", "e", "g", "e", "r">>
str_boolean == <<"b", "o", "o", "l", "e", "a", "n">>
str_Boolean == <<"B", "o", "o", "l", "e", "a", "n">>
str_int32_t == <<"i", "n", "t", "3", "2", "_", "t">>
str_std_string == <<"s", "t", "d", ":", ":", "s", "t", "r", "i", "n", "g">>
str_CatalogTypePtr ==
    <<"C", "a", "t", "a", "l", "o", "g", "T", "y", "p", "e", "*">>

CatalogMapOf(t) ==
    <<"C", "a", "t", "a", "l", "o", "g", "M", "a", "p", "<">> \o t \o <<">">>

----------------------------------------------------------------------------
(* The type mappers.  A result is the returned text, or the exception the  *)
(* call raises: x[-1] on the empty string raises IndexError before the     *)
(* final else can raise Exception('bad type').                             *)

Returned(v) == [raised |-> "none", val |-> v]

Raised(e) == [raised |-> e, val |-> <<>>]

javatypify(t) ==
    IF t = str_string THEN Returned(str_String)
    ELSE IF t = str_int THEN Returned(str_int)
    ELSE IF t = str_bool THEN Returned(str_boolean)
    ELSE IF Len(t) = 0 THEN Raised("IndexError")
    ELSE IF Last(t) = "*" THEN Returned(CatalogMapOf(rstrip(t, "*")))
    ELSE IF Last(t) = "?" THEN Returned(rstrip(t, "?"))
    ELSE Raised("Exception")

javaobjectify(t) ==
    IF t = str_string THEN Returned(str_String)
    ELSE IF t = str_int THEN Returned(str_Integer)
    ELSE IF t = str_bool THEN Returned(str_Boolean)
    ELSE IF Len(t) = 0 THEN Raised("IndexError")
    ELSE IF Last(t) = "*" THEN Returned(CatalogMapOf(rstrip(t, "*")))
    ELSE IF Last(t) = "?" THEN Returned(rstrip(t, "?"))
    ELSE Raised("Exception")

(* cpptypify without its final else: an unmatched token falls through to   *)
(* the generic pointer type instead of raising.                            *)
cpptypify_lenient(t) ==
    IF t = str_string THEN Returned(str_std_string)
    ELSE IF t = str_int THEN Returned(str_int32_t)
    ELSE IF t = str_bool THEN Returned(str_bool)
    ELSE IF Len(t) > 0 /\ Last(t) = "*"
         THEN Returned(CatalogMapOf(rstrip(t, "*")))
    ELSE Returned(str_CatalogTypePtr)

cpptypify(t) ==
    IF t = str_string THEN Returned(str_std_string)
    ELSE IF t = str_int THEN Returned(str_int32_t)
    ELSE IF t = str_bool THEN Returned(str_bool)
    ELSE IF Len(t) = 0 THEN Raised("IndexError")
    ELSE IF Last(t) = "*" THEN Returned(CatalogMapOf(rstrip(t, "*")))
    ELSE IF Last(t) = "?" THEN Returned(str_CatalogTypePtr)
    ELSE Raised("Exception")

----------------------------------------------------------------------------
(* Emitted text.  A line is the write() call at source line `at` with the  *)
(* field it was written for (<<>> outside the field loops) and the values   *)
(* substituted into its template, in order of appearance.                   *)

Line(at, fname, args) == [at |-> at, fname |-> fname, args |-> args]

Fixed(at) == Line(at, <<>>, <<>>)

NoRaise(f) == "none"

(* field.type[-1]: IndexError on the empty token. *)
TypeLastRaises(f) == IF Len(f.type) = 0 THEN "IndexError" ELSE "none"

JavatypifyRaises(f) == javatypify(f.type).raised

CpptypifyRaises(f) == cpptypify(f.type).raised

(* A "for field in cls.fields" loop: Rs(f) is the exception the iteration   *)
(* for f raises before it writes anything ("none" if it completes), Ls(f)   *)
(* the lines a completed iteration writes.  The loop stops at the first     *)
(* iteration that raises.                                                   *)
FieldLoop(fields, Rs(_), Ls(_)) ==
    LET bad == {i \in 1..Len(fields) : Rs(fields[i]) # "none"}
        k == IF bad = {} THEN Len(fields) + 1
             ELSE CHOOSE i \in bad : \A j \in bad : i <= j
    IN  [lines |-> Flatten([i \in 1..(k - 1) |-> Ls(fields[i])]),
         raised |-> IF bad = {} THEN "none" ELSE Rs(fields[k])]

(* Straight-line code before and after a loop; the code after the loop is   *)
(* reached only when the loop completes.                                    *)
Section(before, loop, after) ==
    [lines |-> IF loop.raised = "none" THEN before \o loop.lines \o after
               ELSE before \o loop.lines,
     raised |-> loop.raised]

(* Sections run in order; the first one that raises ends the emission.      *)
RunSections(secs) ==
    LET bad == {i \in 1..Len(secs) : secs[i].raised # "none"}
        k == IF bad = {} THEN Len(secs)
             ELSE CHOOSE i \in bad : \A j \in bad : i <= j
    IN  [lines |-> Flatten([i \in 1..k |-> secs[i].lines]),
         raised |-> IF bad = {} THEN "none" ELSE secs[k].raised]

----------------------------------------------------------------------------
(* genjava: the sections of one class file, catalog.py:87-277.  The         *)
(* explored descriptors carry no doc comment (has_comment() is false).      *)

JavaHeader(cls) ==
    [lines |-> <<Fixed(88), Fixed(89), Fixed(90),
                 Line(96, <<>>, <<cls.name>>)>>,
     raised |-> "none"]

JavaFieldStorageLines(f) ==
    LET ftype == javatypify(f.type).val
    IN  IF ftype = str_String THEN <<Line(105, f.name, <<f.name>>)>>
        ELSE IF Last(f.type) = "?"
             THEN <<Line(107, f.name, <<ftype, f.name>>)>>
        ELSE <<Line(109, f.name, <<ftype, f.name>>)>>

JavaFieldStorage(cls) ==
    Section(<<>>,
            FieldLoop(cls.fields, JavatypifyRaises, JavaFieldStorageLines),
            <<Fixed(110)>>)

JavaSetBaseValuesLines(f) ==
    LET ftype == javatypify(f.type).val
        realtype == ButLast(f.type)
    IN  IF Last(f.type) = "*"
        THEN <<Line(121, f.name, <<f.name, ftype, f.name, realtype>>)>>
        ELSE <<>>

JavaSetBaseValues(cls) ==
    Section(<<Fixed(113), Fixed(114)>>,
            FieldLoop(cls.fields, JavatypifyRaises, JavaSetBaseValuesLines),
            <<Fixed(122)>>)

(* getFields without the collection test. *)
JavaGetFieldsLines_all(f) == <<Line(130, f.name, <<f.name>>)>>

JavaGetFieldsLines(f) ==
    IF Last(f.type) # "*" THEN <<Line(130, f.name, <<f.name>>)>> ELSE <<>>

JavaGetFields(cls) ==
    Section(<<Fixed(125), Fixed(126)>>,
            FieldLoop(cls.fields, TypeLastRaises, JavaGetFieldsLines),
            <<Fixed(131), Fixed(132)>>)

JavaGetChildCollectionsLines(f) ==
    IF Last(f.type) = "*" THEN <<Line(140, f.name, <<f.name>>)>> ELSE <<>>

JavaGetChildCollections(cls) ==
    Section(<<Fixed(135), Fixed(136)>>,
            FieldLoop(cls.fields, TypeLastRaises,
                      JavaGetChildCollectionsLines),
            <<Fixed(141), Fixed(142)>>)

JavaGetFieldLines(f) ==
    LET methname == capitalize(f.name)
    IN  <<Line(151, f.name, <<f.name>>), Line(152, f.name, <<methname>>)>>

JavaGetField(cls) ==
    Section(<<Fixed(146), Fixed(147)>>,
            FieldLoop(cls.fields, NoRaise, JavaGetFieldLines),
            <<Fixed(153), Fixed(154), Fixed(155), Fixed(156)>>)

JavaGettersLines(f) ==
    LET ftype == javatypify(f.type).val
        methname == capitalize(f.name)
    IN  <<Line(166, f.name, <<ftype, methname>>),
          IF Last(f.type) = "?" THEN Line(168, f.name, <<f.name>>)
          ELSE Line(170, f.name, <<f.name>>),
          Line(171, f.name, <<>>)>>

JavaGetters(cls) ==
    Section(<<>>,
            FieldLoop(cls.fields, JavatypifyRaises, JavaGettersLines),
            <<>>)

(* Setters without the handle test: every setter assigns. *)
JavaSettersLines_assign(f) ==
    LET ftype == javatypify(f.type).val
        methname == capitalize(f.name)
    IN  IF Last(f.type) = "*" THEN <<>>
        ELSE <<Line(183, f.name, <<methname, ftype>>),
               Line(187, f.name, <<f.name>>),
               Line(188, f.name, <<>>)>>

JavaSettersLines(f) ==
    LET ftype == javatypify(f.type).val
        methname == capitalize(f.name)
    IN  IF Last(f.type) = "*" THEN <<>>
        ELSE <<Line(183, f.name, <<methname, ftype>>),
               IF Last(f.type) = "?" THEN Line(185, f.name, <<f.name>>)
               ELSE Line(187, f.name, <<f.name>>),
               Line(188, f.name, <<>>)>>

JavaSetters(cls) ==
    Section(<<>>,
            FieldLoop(cls.fields, JavatypifyRaises, JavaSettersLines),
            <<>>)

(* In the set loop the collection test precedes the javatypify call. *)
JavaSetRaises(f) ==
    IF Len(f.type) = 0 THEN "IndexError"
    ELSE IF Last(f.type) = "*" THEN "none"
    ELSE javatypify(f.type).raised

(* set without the "skip child collections" test. *)
JavaSetLines_all(f) ==
    IF Last(f.type) = "*"
    THEN <<Line(204, f.name, <<f.name>>), Line(224, f.name, <<>>)>>
    ELSE LET n == f.name
             body ==
                 IF Last(f.type) = "?"
                 THEN <<Line(206, n, <<>>), Line(207, n, <<>>),
                        Line(208, n, <<>>), Line(209, n, <<n>>)>>
                 ELSE IF f.type = str_int
                 THEN <<Line(211, n, <<>>), Line(212, n, <<n>>)>>
                 ELSE IF f.type = str_bool
                 THEN <<Line(214, n, <<>>), Line(215, n, <<n>>)>>
                 ELSE <<Line(217, n, <<>>), Line(218, n, <<>>),
                        Line(219, n, <<>>), Line(220, n, <<>>),
                        Line(221, n, <<>>), Line(222, n, <<>>),
                        Line(223, n, <<n>>)>>
         IN  <<Line(204, n, <<n>>)>> \o body \o <<Line(224, n, <<>>)>>

JavaSetLines(f) ==
    IF Last(f.type) = "*" THEN <<>>
    ELSE LET ftype == javatypify(f.type).val
             n == f.name
             body ==
                 IF Last(f.type) = "?"
                 THEN <<Line(206, n, <<>>), Line(207, n, <<>>),
                        Line(208, n, <<>>), Line(209, n, <<n>>)>>
                 ELSE IF ftype = str_int
                 THEN <<Line(211, n, <<>>), Line(212, n, <<n>>)>>
                 ELSE IF ftype = str_boolean
                 THEN <<Line(214, n, <<>>), Line(215, n, <<n>>)>>
                 ELSE IF ftype = str_String
                 THEN <<Line(217, n, <<>>), Line(218, n, <<>>),
                        Line(219, n, <<>>), Line(220, n, <<>>),
                        Line(221, n, <<>>), Line(222, n, <<>>),
                        Line(223, n, <<n>>)>>
                 ELSE <<>>
         IN  <<Line(204, n, <<n>>)>> \o body \o <<Line(224, n, <<>>)>>

JavaSet(cls) ==
    Section(<<Fixed(191), Fixed(192), Fixed(193), Fixed(194), Fixed(195),
              Fixed(197)>>,
            FieldLoop(cls.fields, JavaSetRaises, JavaSetLines),
            <<Fixed(225), Fixed(226), Fixed(227), Fixed(228)>>)

JavaCopyFieldsLines(f) ==
    LET ftype == javatypify(f.type).val
        n == f.name
    IN  IF ftype \in {str_int, str_boolean, str_String}
        THEN <<Line(240, n, <<n, n>>)>>
        ELSE IF Last(f.type) = "?" THEN <<Line(242, n, <<n, n>>)>>
        ELSE IF Last(f.type) = "*" THEN <<Line(244, n, <<n, n>>)>>
        ELSE <<>>

JavaCopyFields(cls) ==
    Section(<<Fixed(231), Fixed(232)>>
              \o (IF Len(cls.fields) > 0
                  THEN <<Fixed(234), Line(235, <<>>, <<cls.name, cls.name>>)>>
                  ELSE <<>>),
            FieldLoop(cls.fields, JavatypifyRaises, JavaCopyFieldsLines),
            <<Fixed(245)>>)

JavaEqualsLines(f) ==
    LET ftype == javatypify(f.type).val
        n == f.name
    IN  IF ftype \in {str_int, str_boolean}
        THEN <<Line(267, n, <<n, n>>)>>
        ELSE <<Line(269, n, <<n, n>>), Line(270, n, <<n, n, n>>)>>

JavaEquals(cls) ==
    Section(<<Fixed(248), Fixed(249), Fixed(250), Fixed(251), Fixed(253),
              Fixed(254), Fixed(255), Fixed(257), Fixed(258), Fixed(259),
              Line(260, <<>>, <<cls.name, cls.name>>), Fixed(262)>>,
            FieldLoop(cls.fields, JavatypifyRaises, JavaEqualsLines),
            <<Fixed(271), Fixed(273), Fixed(274)>>)

JavaWrapUp(cls) == [lines |-> <<Fixed(277)>>, raised |-> "none"]

JavaClassFile(cls) ==
    RunSections(<<JavaHeader(cls), JavaFieldStorage(cls),
                  JavaSetBaseValues(cls), JavaGetFields(cls),
                  JavaGetChildCollections(cls), JavaGetField(cls),
                  JavaGetters(cls), JavaSetters(cls), JavaSet(cls),
                  JavaCopyFields(cls), JavaEquals(cls), JavaWrapUp(cls)>>)

----------------------------------------------------------------------------
(* gencpp: per class, the referenced-class list, the header file            *)
(* (catalog.py:322-399) and the definition file (catalog.py:405-528).       *)

str_typeValue == <<"t", "y", "p", "e", "V", "a", "l", "u", "e">>
str_intValue == <<"i", "n", "t", "V", "a", "l", "u", "e">>
str_strValue_c_str ==
    <<"s", "t", "r", "V", "a", "l", "u", "e", ".", "c", "_", "s", "t", "r",
      "(", ")">>
str_iter == <<"_", "i", "t", "e", "r">>

privname(f) == <<"m", "_">> \o f.name

IsMember(e, s) == \E i \in 1..Len(s) : s[i] = e

RECURSIVE AppendReferenced(_, _)
AppendReferenced(fields, acc) ==
    IF Len(fields) = 0 THEN acc
    ELSE LET field == Head(fields)
             classType == ButLast(field.type)
         IN  AppendReferenced(Tail(fields),
                 IF Last(field.type) \in {"*", "?"}
                    /\ ~IsMember(classType, acc)
                 THEN Append(acc, classType)
                 ELSE acc)

RemoveFirst(s, e) ==
    IF ~IsMember(e, s) THEN s
    ELSE LET k == CHOOSE i \in 1..Len(s) :
                      s[i] = e /\ \A j \in 1..(i - 1) : s[j] # e
         IN  SubSeq(s, 1, k - 1) \o SubSeq(s, k + 1, Len(s))

HasEmptyType(cls) ==
    \E i \in 1..Len(cls.fields) : Len(cls.fields[i].type) = 0

(* referencedClasses without the removal of the class's own name. *)
referencedClasses_keepself(cls) ==
    IF HasEmptyType(cls)
    THEN [raised |-> "IndexError", val |-> <<>>]
    ELSE [raised |-> "none", val |-> AppendReferenced(cls.fields, <<>>)]

(* Lines 309-316.  field.type[-1] raises IndexError on an empty token, and  *)
(* nothing of the list survives the exception.                              *)
referencedClasses(cls) ==
    IF HasEmptyType(cls)
    THEN [raised |-> "IndexError", val |-> <<>>]
    ELSE [raised |-> "none",
          val |-> RemoveFirst(AppendReferenced(cls.fields, <<>>), cls.name)]

CppForwardDeclarations(cls) ==
    LET refs == referencedClasses(cls).val
    IN  [lines |-> [i \in 1..Len(refs) |-> Line(338, <<>>, <<refs[i]>>)],
         raised |-> "none"]

CppHeaderProlog(cls) ==
    LET pp_unique_str == upper(cls.name)
    IN  [lines |-> <<Fixed(325), Fixed(326),
                     Line(328, <<>>, <<pp_unique_str>>),
                     Line(329, <<>>, <<pp_unique_str>>),
                     Fixed(330), Fixed(332), Fixed(333), Fixed(334),
                     Fixed(335)>>,
         raised |-> "none"]

CppClassOpen(cls) ==
    [lines |-> <<Line(344, <<>>, <<cls.name>>), Fixed(345),
                 Line(346, <<>>, <<cls.name>>), Fixed(349),
                 Line(352, <<>>, <<cls.name>>)>>,
     raised |-> "none"]

CppMemberLines(f) ==
    <<Line(358, f.name, <<cpptypify(f.type).val, privname(f)>>)>>

CppMembers(cls) ==
    Section(<<>>,
            FieldLoop(cls.fields, CpptypifyRaises, CppMemberLines),
            <<Fixed(361), Fixed(364), Fixed(367), Fixed(370), Fixed(373),
              Line(376, <<>>, <<cls.name>>)>>)

CppGetterDeclLines(f) ==
    LET ftype == cpptypify(f.type).val
        pubname == f.name
    IN  IF f.type = str_string THEN <<Line(387, f.name, <<pubname>>)>>
        ELSE IF Last(f.type) = "?"
             THEN <<Line(389, f.name, <<ButLast(f.type), pubname>>)>>
        ELSE IF Last(f.type) = "*"
             THEN <<Line(391, f.name, <<ftype, pubname>>)>>
        ELSE <<Line(393, f.name, <<ftype, pubname>>)>>

CppGetterDecls(cls) ==
    Section(<<>>,
            FieldLoop(cls.fields, CpptypifyRaises, CppGetterDeclLines),
            <<Fixed(395), Fixed(397), Line(399, <<>>, <<upper(cls.name)>>)>>)

CppHeaderFile(cls) ==
    RunSections(<<CppHeaderProlog(cls), CppForwardDeclarations(cls),
                  CppClassOpen(cls), CppMembers(cls), CppGetterDecls(cls)>>)

(* Lines 414-417: the include of every '*' or '?' field's class, made       *)
(* unique through a dict.  field.type[-1] raises IndexError on an empty     *)
(* token.                                                                   *)
otherhdrs(cls) ==
    IF HasEmptyType(cls) THEN {}
    ELSE {lower(ButLast(cls.fields[i].type)) :
             i \in {j \in 1..Len(cls.fields) :
                       Last(cls.fields[j].type) \in {"*", "?"}}}

(* The orders in which "for hdr in uniques.keys()" can visit the headers:   *)
(* the iteration order of a dict is not fixed by its insertion order.       *)
KeyOrders(S) ==
    {o \in [1..Cardinality(S) -> S] :
        \A i, j \in 1..Cardinality(S) : i # j => o[i] # o[j]}

CppSourceProlog(cls, hdrs) ==
    LET filename == lower(cls.name)
    IN  Section(<<Fixed(408), Fixed(409), Fixed(411),
                  Line(412, <<>>, <<filename>>), Fixed(413)>>,
                [lines |-> [i \in 1..Len(hdrs) |->
                               Line(419, <<>>, <<hdrs[i]>>)],
                 raised |-> IF HasEmptyType(cls) THEN "IndexError"
                            ELSE "none"],
                <<Fixed(420), Fixed(421)>>)

(* Lines 424-433.  Both list comprehensions read field.type[-1]. *)
CppConstructorHead(cls) ==
    IF HasEmptyType(cls) THEN [lines |-> <<>>, raised |-> "IndexError"]
    ELSE
    LET maps == {i \in 1..Len(cls.fields) : Last(cls.fields[i].type) = "*"}
        mapcons == Flatten([i \in 1..Len(cls.fields) |->
                       IF i \in maps THEN <<cls.fields[i].name>> ELSE <<>>])
        comma == IF Len(mapcons) > 0 THEN <<",">> ELSE <<>>
    IN  [lines |-> <<Line(425, <<>>, <<cls.name, cls.name>>),
                     Line(428, <<>>, <<comma>>)>>
                   \o (IF Len(mapcons) > 0
                       THEN <<Line(432, <<>>, mapcons)>> ELSE <<>>)
                   \o <<Fixed(433)>>,
         raised |-> "none"]

CppConstructorBodyLines(f) ==
    IF Last(f.type) = "*"
    THEN <<Line(442, f.name, <<f.name, privname(f)>>)>>
    ELSE <<Line(444, f.name, <<f.name>>)>>

CppConstructorBody(cls) ==
    Section(<<Fixed(436)>>,
            FieldLoop(cls.fields, CpptypifyRaises, CppConstructorBodyLines),
            <<Fixed(445)>>)

(* The destructor freeing through every field, owned or not. *)
CppDestructorLines_all(f) ==
    LET ftype == rstrip(f.type, "*")
        itr == lower(ftype) \o str_iter
        n == f.name
    IN  <<Line(455, n, <<ftype, itr, privname(f)>>),
          Line(456, n, <<itr, privname(f)>>),
          Line(457, n, <<itr>>),
          Line(458, n, <<itr>>),
          Line(459, n, <<>>),
          Line(460, n, <<privname(f)>>)>>

CppDestructorLines(f) ==
    IF Last(f.type) = "*"
    THEN LET ftype == rstrip(f.type, "*")
             itr == lower(ftype) \o str_iter
             n == f.name
         IN  <<Line(455, n, <<ftype, itr, privname(f)>>),
               Line(456, n, <<itr, privname(f)>>),
               Line(457, n, <<itr>>),
               Line(458, n, <<itr>>),
               Line(459, n, <<>>),
               Line(460, n, <<privname(f)>>)>>
    ELSE <<>>

CppDestructor(cls) ==
    Section(<<Line(448, <<>>, <<cls.name, cls.name>>)>>,
            FieldLoop(cls.fields, TypeLastRaises, CppDestructorLines),
            <<Fixed(461)>>)

CppUpdateLines(f) ==
    LET ftype == cpptypify(f.type).val
    IN  IF Last(f.type) = "?"
        THEN <<Line(471, f.name, <<privname(f), f.name, str_typeValue>>)>>
        ELSE IF Last(f.type) # "*"
        THEN <<Line(476, f.name,
                    <<privname(f), f.name,
                      IF ftype = str_std_string THEN str_strValue_c_str
                      ELSE str_intValue>>)>>
        ELSE <<>>

CppUpdate(cls) ==
    Section(<<Line(464, <<>>, <<cls.name>>)>>,
            FieldLoop(cls.fields, CpptypifyRaises, CppUpdateLines),
            <<Fixed(477)>>)

(* addChild without the lookup of an existing entry. *)
CppAddChildLines_overwrite(f) ==
    IF Last(f.type) = "*"
    THEN <<Line(485, f.name, <<f.name>>), Line(488, f.name, <<privname(f)>>)>>
    ELSE <<>>

CppAddChildLines(f) ==
    IF Last(f.type) = "*"
    THEN <<Line(485, f.name, <<f.name>>), Line(486, f.name, <<privname(f)>>),
           Line(487, f.name, <<>>), Line(488, f.name, <<privname(f)>>)>>
    ELSE <<>>

CppAddChild(cls) ==
    Section(<<Line(480, <<>>, <<cls.name>>)>>,
            FieldLoop(cls.fields, TypeLastRaises, CppAddChildLines),
            <<Fixed(489)>>)

CppGetChildLines(f) ==
    IF Last(f.type) = "*"
    THEN <<Line(497, f.name, <<f.name>>), Line(498, f.name, <<privname(f)>>)>>
    ELSE <<>>

CppGetChild(cls) ==
    Section(<<Line(492, <<>>, <<cls.name>>)>>,
            FieldLoop(cls.fields, TypeLastRaises, CppGetChildLines),
            <<Fixed(499)>>)

CppRemoveChildLines(f) ==
    IF Last(f.type) = "*"
    THEN <<Line(508, f.name, <<f.name>>), Line(509, f.name, <<privname(f)>>),
           Line(510, f.name, <<>>)>>
    ELSE <<>>

CppRemoveChild(cls) ==
    Section(<<Line(502, <<>>, <<cls.name>>), Fixed(503)>>,
            FieldLoop(cls.fields, TypeLastRaises, CppRemoveChildLines),
            <<Fixed(511), Fixed(512)>>)

CppGetterLines(f) ==
    LET ftype == cpptypify(f.type).val
        outertype == ButLast(f.type)
        n == f.name
    IN  IF f.type = str_string
        THEN <<Line(521, n, <<n, privname(f)>>)>>
        ELSE IF Last(f.type) = "?"
        THEN <<Line(523, n, <<outertype, n>>),
               Line(524, n, <<outertype, privname(f)>>)>>
        ELSE IF Last(f.type) = "*"
        THEN <<Line(526, n, <<ftype, n, privname(f)>>)>>
        ELSE <<Line(528, n, <<ftype, n, privname(f)>>)>>

CppGetters(cls) ==
    Section(<<>>,
            FieldLoop(cls.fields, CpptypifyRaises, CppGetterLines),
            <<>>)

CppSourceFile(cls, hdrs) ==
    RunSections(<<CppSourceProlog(cls, hdrs), CppConstructorHead(cls),
                  CppConstructorBody(cls), CppDestructor(cls),
                  CppUpdate(cls), CppAddChild(cls), CppGetChild(cls),
                  CppRemoveChild(cls), CppGetters(cls)>>)

----------------------------------------------------------------------------
(* The explored class models: what parse() may hand to main.               *)

(* The class lists explored: no class, one class, two classes whose names  *)
(* differ only in case, two classes whose names differ otherwise.  The     *)
(* type tokens below mention the classes A, B and String.                  *)
ClassNameLists ==
    {<<>>, <<<<"A">>>>, <<<<"a">>>>, <<<<"A">>, <<"a">>>>,
     <<<<"A">>, <<"B">>>>}

(* Field names matter only through equality and capitalize(), under which  *)
(* "ab" and "aB" collide and "b" does not: a class names its first field    *)
(* "ab" and draws the others, in this order, from the rest.                 *)
FieldNameOrder == <<<<"a", "b">>, <<"a", "B">>, <<"b">>>>

TypeTokens ==
    {str_string, str_int, str_bool,
     <<"A", "*">>, <<"A", "*", "*">>, <<"B", "?">>,
     <<"S", "t", "r", "i", "n", "g", "?">>,
     <<"x">>, <<>>}

RECURSIVE SortedSeq(_)
SortedSeq(S) ==
    IF S = {} THEN <<>>
    ELSE LET m == CHOOSE i \in S : \A j \in S : i <= j
         IN  <<m>> \o SortedSeq(S \ {m})

(* The lists of at most n pairwise distinct field names. *)
FieldNameLists(n) ==
    {[k \in 1..Cardinality(S) |-> FieldNameOrder[SortedSeq(S)[k]]] :
        S \in {T \in SUBSET (1..Len(FieldNameOrder)) :
                  Cardinality(T) <= n /\ (T # {} => 1 \in T)}}

RECURSIVE FieldsBefore(_, _)
FieldsBefore(fnames, i) ==
    IF i <= 1 THEN 0
    ELSE FieldsBefore(fnames, i - 1) + Len(fnames[i - 1])

(* The class list with the given class names, field names per class, and   *)
(* the type tokens of all fields in order.                                 *)
ModelOf(names, fnames, types) ==
    [i \in 1..Len(names) |->
        [name |-> names[i],
         fields |-> [k \in 1..Len(fnames[i]) |->
                        [name |-> fnames[i][k],
                         type |-> types[FieldsBefore(fnames, i) + k]]]]]

(* What parse() may return: class names are unique, field names are unique *)
(* within a class, and a model has at most MaxFields fields in all.        *)
Parsed(model) ==
    \E names \in ClassNameLists :
       \E fnames \in [1..Len(names) -> FieldNameLists(MaxFields)] :
          /\ FieldsBefore(fnames, Len(names) + 1) <= MaxFields
          /\ \E types \in [1..FieldsBefore(fnames, Len(names) + 1)
                              -> TypeTokens] :
                model = ModelOf(names, fnames, types)

(* Every text the type mappers are called on directly. *)
TokenChars == {"A", "*", "?"}

RECURSIVE TextsUpTo(_)
TextsUpTo(n) ==
    IF n = 0 THEN {<<>>}
    ELSE LET shorter == TextsUpTo(n - 1)
         IN  shorter \cup {Append(t, c) : t \in shorter, c \in TokenChars}

Tokens == TextsUpTo(MaxTokLen) \cup TypeTokens

----------------------------------------------------------------------------
(* The output trees. *)

JavaSupportFiles ==
    {"Catalog.java", "CatalogType.java", "CatalogMap.java",
     "CatalogException.java", "CatalogChangeGroup.java",
     "CatalogDiffEngine.java", "FilteredCatalogDiffEngine.java"}

CppSupportFiles ==
    {"catalog.h", "catalogtype.h", "catalogmap.h", "catalog.cpp",
     "catalogtype.cpp"}

NoFiles == [p \in {} |-> 0]

EmptyTree == [cleared |-> FALSE, support |-> {}, files |-> NoFiles]

(* file(path, 'w') creates or truncates the file; the lines written to it   *)
(* reach the disk when the file object is dropped or the interpreter exits. *)
FileOf(cls, lines) == [cls |-> cls.name, lines |-> lines]

WriteFile(tree, path, file) ==
    [tree EXCEPT !.files = (path :> file) @@ tree.files]

javapath(cls) == <<cls.name, ".java">>

hpath(cls) == <<lower(cls.name), ".h">>

cpppath(cls) == <<lower(cls.name), ".cpp">>

----------------------------------------------------------------------------
(* main, genjava and gencpp as steps of one run. *)

(* No command line is being parsed. *)
CliIdle == [pc |-> "idle"]

Init ==
    /\ Parsed(classes)
    /\ pc = "main"
    /\ ci = 0
    /\ javaTree = EmptyTree
    /\ cppTree = EmptyTree
    /\ exc = "none"
    /\ x = <<>>
    /\ typified = [fn |-> "none", raised |-> "none", val |-> <<>>]
    /\ cli = CliIdle

Abort(e) ==
    /\ pc' = "aborted"
    /\ exc' = e

(* main, line 543. *)
MainCallGenJava ==
    /\ pc = "main"
    /\ pc' = "genjava"
    /\ UNCHANGED <<cli, classes, ci, javaTree, cppTree, exc, x, typified>>

(* genjava, lines 65-74 and the start of the loop at line 80. *)
GenJavaSetup ==
    /\ pc = "genjava"
    /\ javaTree' = [cleared |-> TRUE, support |-> JavaSupportFiles,
                    files |-> NoFiles]
    /\ ci' = 1
    /\ pc' = IF Len(classes) = 0 THEN "genjava_return" ELSE "genjava_loop"
    /\ UNCHANGED <<cli, classes, cppTree, exc, x, typified>>

(* genjava, lines 81-277: one iteration of the class loop.  file(...)      *)
(* opens the class file or raises IOError; the body is written up to the    *)
(* first exception.                                                         *)
GenJavaClass ==
    /\ pc = "genjava_loop"
    /\ \E opened \in BOOLEAN :
          LET cls == classes[ci]
              out == JavaClassFile(cls)
          IN  IF ~opened
              THEN /\ Abort("IOError")
                   /\ UNCHANGED <<javaTree, ci>>
              ELSE /\ javaTree' = WriteFile(javaTree, javapath(cls),
                                            FileOf(cls, out.lines))
                   /\ IF out.raised # "none"
                      THEN /\ Abort(out.raised)
                           /\ UNCHANGED ci
                      ELSE /\ ci' = ci + 1
                           /\ pc' = IF ci = Len(classes)
                                    THEN "genjava_return"
                                    ELSE "genjava_loop"
                           /\ UNCHANGED exc
    /\ UNCHANGED <<cli, classes, cppTree, x, typified>>

(* main, line 544. *)
MainCallGenCpp ==
    /\ pc = "genjava_return"
    /\ pc' = "gencpp"
    /\ UNCHANGED <<cli, classes, ci, javaTree, cppTree, exc, x, typified>>

(* gencpp, lines 295-301 and the start of the loop at line 306, which       *)
(* visits the classes in reverse.                                           *)
GenCppSetup ==
    /\ pc = "gencpp"
    /\ cppTree' = [cleared |-> TRUE, support |-> CppSupportFiles,
                   files |-> NoFiles]
    /\ ci' = Len(classes)
    /\ pc' = IF Len(classes) = 0 THEN "gencpp_return" ELSE "gencpp_loop"
    /\ UNCHANGED <<cli, classes, javaTree, exc, x, typified>>

(* gencpp, lines 307-528: one iteration of the class loop.  The referenced *)
(* classes are computed first; then the header file is opened and written,  *)
(* then the definition file.                                                *)
GenCppClass ==
    /\ pc = "gencpp_loop"
    /\ \E openedH \in BOOLEAN, openedCpp \in BOOLEAN,
          hdrs \in KeyOrders(otherhdrs(classes[ci])) :
          LET cls == classes[ci]
              refs == referencedClasses(cls)
              header == CppHeaderFile(cls)
              source == CppSourceFile(cls, hdrs)
              withH == WriteFile(cppTree, hpath(cls),
                                 FileOf(cls, header.lines))
              withCpp == WriteFile(withH, cpppath(cls),
                                   FileOf(cls, source.lines))
          IN  IF refs.raised # "none"
              THEN /\ Abort(refs.raised)
                   /\ UNCHANGED <<cppTree, ci>>
              ELSE IF ~openedH
              THEN /\ Abort("IOError")
                   /\ UNCHANGED <<cppTree, ci>>
              ELSE IF header.raised # "none"
              THEN /\ Abort(header.raised)
                   /\ cppTree' = withH
                   /\ UNCHANGED ci
              ELSE IF ~openedCpp
              THEN /\ Abort("IOError")
                   /\ cppTree' = withH
                   /\ UNCHANGED ci
              ELSE /\ cppTree' = withCpp
                   /\ IF source.raised # "none"
                      THEN /\ Abort(source.raised)
                           /\ UNCHANGED ci
                      ELSE /\ ci' = ci - 1
                           /\ pc' = IF ci = 1 THEN "gencpp_return"
                                    ELSE "gencpp_loop"
                           /\ UNCHANGED exc
    /\ UNCHANGED <<cli, classes, javaTree, x, typified>>

(* main returns after line 544. *)
MainReturn ==
    /\ pc = "gencpp_return"
    /\ pc' = "done"
    /\ UNCHANGED <<cli, classes, ci, javaTree, cppTree, exc, x, typified>>

Next ==
    \/ MainCallGenJava
    \/ GenJavaSetup
    \/ GenJavaClass
    \/ MainCallGenCpp
    \/ GenCppSetup
    \/ GenCppClass
    \/ MainReturn

Spec == Init /\ [][Next]_vars

----------------------------------------------------------------------------
(* Each emitter called on its own with a class model. *)

InitGen ==
    /\ Parsed(classes)
    /\ pc \in {"genjava", "gencpp"}
    /\ ci = 0
    /\ javaTree = EmptyTree
    /\ cppTree = EmptyTree
    /\ exc = "none"
    /\ x = <<>>
    /\ typified = [fn |-> "none", raised |-> "none", val |-> <<>>]
    /\ cli = CliIdle

NextGen ==
    \/ GenJavaSetup
    \/ GenJavaClass
    \/ GenCppSetup
    \/ GenCppClass

SpecGen == InitGen /\ [][NextGen]_vars

----------------------------------------------------------------------------
(* The type mappers called directly on a token. *)

InitTypify ==
    /\ x \in Tokens
    /\ typified = [fn |-> "none", raised |-> "none", val |-> <<>>]
    /\ cli = CliIdle
    /\ classes = <<>>
    /\ pc = "typify"
    /\ ci = 0
    /\ javaTree = EmptyTree
    /\ cppTree = EmptyTree
    /\ exc = "none"

Called(fn, r) == [fn |-> fn, raised |-> r.raised, val |-> r.val]

CallJavatypify ==
    /\ pc = "typify"
    /\ typified' = Called("javatypify", javatypify(x))
    /\ UNCHANGED <<cli, classes, pc, ci, javaTree, cppTree, exc, x>>

CallJavaobjectify ==
    /\ pc = "typify"
    /\ typified' = Called("javaobjectify", javaobjectify(x))
    /\ UNCHANGED <<cli, classes, pc, ci, javaTree, cppTree, exc, x>>

CallCpptypify ==
    /\ pc = "typify"
    /\ typified' = Called("cpptypify", cpptypify(x))
    /\ UNCHANGED <<cli, classes, pc, ci, javaTree, cppTree, exc, x>>

NextTypify ==
    \/ CallJavatypify
    \/ CallJavaobjectify
    \/ CallCpptypify

SpecTypify == InitTypify /\ [][NextTypify]_vars

----------------------------------------------------------------------------
(* CLIParser.parse on one command line (voltcli/cli.py:297-328).           *)
(*                                                                         *)
(* The parser is built with two base options, the boolean --debug and the  *)
(* string option --host, with or without a version text, and with one verb *)
(* named go.  The verb has string options -a, -b, ..., each required or    *)
(* not and with or without a default, a number of required arguments, a    *)
(* number of fixed command arguments and the passthrough flag.  The        *)
(* command line is a sequence of whole words: options are never            *)
(* abbreviated, clustered or joined to their value with '='.               *)

OptionNames == <<"-a", "-b", "-c", "-d">>

OptionSpecs == [required : BOOLEAN, default : BOOLEAN]

(* The words of a command line apart from the verb's own options: the end  *)
(* of options, optparse's two built-in options (-h is --help), an option    *)
(* nobody declared, the two base options, the verb and a plain word.       *)
BaseWords ==
    {"--", "--help", "--version", "-x", "--debug", "--host", "go", "zz"}

VerbNames == {"go"}

(* str.startswith('-') on the words of the model. *)
StartsWithDash(w) == w \notin {"go", "zz", "fixed"}

(* BaseOption.has_value, cli.py:96-97, on the declared options: --host and *)
(* the verb's options store a string, --debug, --help and --version are    *)
(* BooleanOptions.                                                         *)
has_value(w) == w \notin {"--debug", "--help", "--version"}

(* preprocess_options, cli.py:458-494.  The dictionary holds the base      *)
(* options and the two built-ins, whatever the parser's version; the walk  *)
(* does not stop at '--'; a value option takes the next word, and          *)
(* cmdargs[iopt+1] raises IndexError when there is none (line 487).        *)
RECURSIVE preprocess_walk(_, _, _)
preprocess_walk(cmdargs, iopt, option_values) ==
    IF iopt > Len(cmdargs) THEN option_values
    ELSE LET w == cmdargs[iopt]
         IN  IF w \in {"--debug", "--host", "--help", "--version"}
             THEN IF has_value(w)
                  THEN IF iopt + 1 > Len(cmdargs)
                       THEN [option_values EXCEPT !.raised = TRUE]
                       ELSE preprocess_walk(cmdargs, iopt + 2,
                               [option_values EXCEPT
                                   !.host = cmdargs[iopt + 1]])
                  ELSE preprocess_walk(cmdargs, iopt + 1,
                          [option_values EXCEPT
                              !.help = @ \/ w = "--help",
                              !.version = @ \/ w = "--version",
                              !.debug = @ \/ w = "--debug"])
             ELSE preprocess_walk(cmdargs, iopt + 1, option_values)

preprocess_options(cmdargs) ==
    preprocess_walk(cmdargs, 1,
        [raised |-> FALSE, help |-> FALSE, version |-> FALSE,
         debug |-> FALSE, host |-> "None"])

(* The options optparse knows when parse_args is called: --help always,    *)
(* --version when the parser was built with a version, the base options    *)
(* (add_base_options, 227-232) and, after initialize_verb, the verb's      *)
(* options (add_verb_options, 234-242).                                    *)
KnownOptions(version, options, verb) ==
    {"--help", "--debug", "--host"}
       \cup (IF version THEN {"--version"} ELSE {})
       \cup (IF verb THEN {OptionNames[i] : i \in 1..Len(options)} ELSE {})

(* optparse's walk over the words, as called at cli.py:308 and 322: '--'   *)
(* ends the options and the rest are arguments; a word without a dash is   *)
(* an argument; an unknown option and a value option without a value end   *)
(* in error(), which is sys.exit(2); --help and --version print and call   *)
(* sys.exit(0); the options are taken in the order of the line.            *)
RECURSIVE process_args(_, _, _, _, _)
process_args(rargs, i, known, given, largs) ==
    IF i > Len(rargs)
    THEN [exit |-> "none", given |-> given, args |-> largs]
    ELSE LET arg == rargs[i]
         IN  IF arg = "--"
             THEN [exit |-> "none", given |-> given,
                   args |-> largs \o SubSeq(rargs, i + 1, Len(rargs))]
             ELSE IF ~StartsWithDash(arg)
             THEN process_args(rargs, i + 1, known, given,
                               Append(largs, arg))
             ELSE IF arg \notin known
             THEN [exit |-> "SystemExit(2)", given |-> given,
                   args |-> <<>>]
             ELSE IF arg \in {"--help", "--version"}
             THEN [exit |-> "SystemExit(0)", given |-> given,
                   args |-> <<>>]
             ELSE IF has_value(arg)
             THEN IF i + 1 > Len(rargs)
                  THEN [exit |-> "SystemExit(2)", given |-> given,
                        args |-> <<>>]
                  ELSE process_args(rargs, i + 2, known,
                                    given \cup {arg}, largs)
             ELSE process_args(rargs, i + 1, known, given \cup {arg},
                               largs)

(* optparse's parse_args: for each option of the verb the value given on   *)
(* the command line, else the option's default, else None; and the         *)
(* arguments left over.                                                    *)
parse_args(rargs, version, options, verb) ==
    LET r == process_args(rargs, 1, KnownOptions(version, options, verb),
                          {}, <<>>)
    IN  [exit |-> r.exit,
         args |-> r.args,
         opts |-> [i \in 1..Len(options) |->
                      IF OptionNames[i] \in r.given THEN "value"
                      ELSE IF options[i].default THEN "default"
                      ELSE "None"]]

(* verb.iter_options(required_only = True), as called at cli.py:250. *)
iter_options_required(options) ==
    LET req == {i \in 1..Len(options) : options[i].required}
    IN  [k \in 1..Cardinality(req) |-> OptionNames[SortedSeq(req)[k]]]

(* The message of utility.abort, or the exception that ends parse: its     *)
(* text and, for the 'Missing required %s%s:' message, the item type, the  *)
(* plural and the listed items.                                            *)
NoMessage ==
    [text |-> "none", type_name |-> "", plural |-> FALSE, items |-> <<>>]

TextMessage(t) == [NoMessage EXCEPT !.text = t]

(* check_missing_items, cli.py:428-441: aborts when the list is not empty. *)
check_missing_items(type_name, missing_items) ==
    IF Len(missing_items) > 0
    THEN [aborted |-> TRUE,
          message |-> [text |-> "Missing required",
                       type_name |-> type_name,
                       plural |-> Len(missing_items) > 1,
                       items |-> missing_items]]
    ELSE [aborted |-> FALSE, message |-> NoMessage]

(* CLIParser.check_verb_options, cli.py:244-255.  The opts argument is    *)
(* not read.                                                              *)
check_verb_options(options, opts) ==
    LET missing == iter_options_required(options)
    IN  check_missing_items("option", missing)

(* CLIParser.process_verb_arguments, cli.py:257-277: the verb's fixed      *)
(* arguments follow those of the command line; the required arguments the  *)
(* list does not reach are missing; the list is returned without the       *)
(* required arguments.                                                     *)
process_verb_arguments(nargs, verb_args, command_arguments) ==
    LET args == verb_args \o command_arguments
        missing == [k \in 1..(IF nargs > Len(args) THEN nargs - Len(args)
                              ELSE 0) |-> Len(args) + k]
        r == check_missing_items("argument", missing)
    IN  [aborted |-> r.aborted, message |-> r.message,
         args |-> SubSeq(args, nargs + 1, Len(args))]

(* The command lines of at most n words over the words W. *)
CmdLines(W, n) == UNION {[1..k -> W] : k \in 0..n}

InitCli ==
    /\ \E n \in 0..MaxOptions :
       \E cmdargs \in CmdLines(BaseWords \cup
                                  {OptionNames[i] : i \in 1..n}, MaxWords),
          options \in [1..n -> OptionSpecs],
          nargs \in 0..MaxArgs, fixed \in 0..MaxArgs,
          passthrough \in BOOLEAN, version \in BOOLEAN :
          /\ (Len(cmdargs) = 0 \/ cmdargs[1] \notin VerbNames) =>
                n = 0 /\ nargs = 0 /\ fixed = 0 /\ ~passthrough
          /\ cli = [pc |-> "parse", cmdargs |-> cmdargs,
                    version |-> version, options |-> options,
                    nargs |-> nargs,
                    command_arguments |-> [k \in 1..fixed |-> "fixed"],
                    passthrough |-> passthrough, verb |-> "None",
                    opts |-> "unset", args |-> <<>>,
                    checked |-> FALSE, message |-> NoMessage]
    /\ classes = <<>>
    /\ pc = "cli"
    /\ ci = 0
    /\ javaTree = EmptyTree
    /\ cppTree = EmptyTree
    /\ exc = "none"
    /\ x = <<>>
    /\ typified = [fn |-> "none", raised |-> "none", val |-> <<>>]

CliUnchanged ==
    UNCHANGED <<classes, pc, ci, javaTree, cppTree, exc, x, typified>>

(* How parse ends without returning: utility.abort with a message, an      *)
(* exception, or sys.exit inside optparse.                                 *)
CliEnd(p, t) == [cli EXCEPT !.pc = p, !.message = TextMessage(t)]

(* parse, lines 301-312, with preprocess_options (458-494) and            *)
(* initialize_verb (279-295).  When the first word starts with '-' and     *)
(* --help or --version was seen anywhere on the line, the whole line goes  *)
(* to parse_args (308): parse returns a command without a verb (309)       *)
(* unless optparse exits.  Otherwise the first word must be a verb.        *)
CliParseVerb ==
    /\ cli.pc = "parse"
    /\ cli' =
          IF Len(cli.cmdargs) = 0
          THEN CliEnd("aborted", "No verb was specified.")
          ELSE LET pre_opts == preprocess_options(cli.cmdargs)
                   first == cli.cmdargs[1]
               IN  IF pre_opts.raised
                   THEN CliEnd("raised", "IndexError")
                   ELSE IF StartsWithDash(first)
                           /\ (pre_opts.help \/ pre_opts.version)
                   THEN LET r == parse_args(cli.cmdargs, cli.version,
                                            cli.options, FALSE)
                        IN  IF r.exit # "none"
                            THEN CliEnd("exited", r.exit)
                            ELSE [cli EXCEPT !.pc = "returned",
                                             !.opts = r.opts,
                                             !.args = r.args]
                   ELSE IF StartsWithDash(first)
                   THEN CliEnd("aborted",
                           "The first argument must be a verb, not an option.")
                   ELSE IF first \notin VerbNames
                   THEN CliEnd("aborted", "Unknown verb")
                   ELSE [cli EXCEPT !.pc = "verb_cmdline",
                                    !.verb = first]
    /\ CliUnchanged

(* parse, lines 313-322: a passthrough verb gets its words unparsed and no *)
(* options; otherwise optparse reads the words after the verb.             *)
CliParseArgs ==
    /\ cli.pc = "verb_cmdline"
    /\ LET verb_cmdargs == SubSeq(cli.cmdargs, 2, Len(cli.cmdargs))
           r == parse_args(verb_cmdargs, cli.version, cli.options, TRUE)
       IN  cli' = IF cli.passthrough
                  THEN [cli EXCEPT !.pc = "returned", !.opts = "None",
                                   !.args = verb_cmdargs]
                  ELSE IF r.exit # "none"
                  THEN CliEnd("exited", r.exit)
                  ELSE [cli EXCEPT !.pc = "check_verb_options",
                                   !.opts = r.opts, !.args = r.args]
    /\ CliUnchanged

(* parse, lines 323-324. *)
CliCheckVerbOptions ==
    /\ cli.pc = "check_verb_options"
    /\ LET r == check_verb_options(cli.options, cli.opts)
       IN  cli' = IF r.aborted
                  THEN [cli EXCEPT !.pc = "aborted", !.checked = TRUE,
                                   !.message = r.message]
                  ELSE [cli EXCEPT !.pc = "process_verb_arguments",
                                   !.checked = TRUE]
    /\ CliUnchanged

(* parse, lines 325-328. *)
CliProcessVerbArguments ==
    /\ cli.pc = "process_verb_arguments"
    /\ LET r == process_verb_arguments(cli.nargs, cli.args,
                                       cli.command_arguments)
       IN  cli' = IF r.aborted
                  THEN [cli EXCEPT !.pc = "aborted", !.message = r.message]
                  ELSE [cli EXCEPT !.pc = "returned", !.args = r.args]
    /\ CliUnchanged

NextCli ==
    \/ CliParseVerb
    \/ CliParseArgs
    \/ CliCheckVerbOptions
    \/ CliProcessVerbArguments

SpecCli == InitCli /\ [][NextCli]_vars

----------------------------------------------------------------------------
(* The field kinds as the specification's classifier defines them. *)

ScalarTokens == {str_string, str_int, str_bool}

Unrecognized(t) ==
    /\ t \notin ScalarTokens
    /\ Len(t) = 0 \/ Last(t) \notin {"*", "?"}

KindOf(t) ==
    IF t \in ScalarTokens THEN "Scalar"
    ELSE IF Len(t) = 0 THEN "error"
    ELSE IF Last(t) = "*" THEN "Collection"
    ELSE IF Last(t) = "?" THEN "Reference"
    ELSE "error"

Pick(lines, ats) ==
    LET Wanted(l) == l.at \in ats
    IN  SelectSeq(lines, Wanted)

FilesOf(tree) == {tree.files[p] : p \in DOMAIN tree.files}

ClassIndex(n) == CHOOSE i \in 1..Len(classes) : classes[i].name = n

ClassNamed(n) == classes[ClassIndex(n)]

FirstUnrecognized(cls) ==
    LET bad == {k \in 1..Len(cls.fields) : Unrecognized(cls.fields[k].type)}
    IN  IF bad = {} THEN 0 ELSE CHOOSE k \in bad : \A j \in bad : k <= j

HasUnrecognized(cls) == FirstUnrecognized(cls) # 0

----------------------------------------------------------------------------
(* C1: javatypify and cpptypify classify every token by the same ordered   *)
(* rules (string, int, bool, then a trailing '*', then a trailing '?'),    *)
(* and the class name they put into a Collection or Reference type is the  *)
(* token with exactly its one last character removed.                      *)
C1_TargetIsTokenMinusOneMarker ==
    typified.fn \in {"javatypify", "cpptypify"} =>
        LET java == typified.fn = "javatypify"
        IN  IF x = str_string
            THEN typified.val = IF java THEN str_String ELSE str_std_string
            ELSE IF x = str_int
            THEN typified.val = IF java THEN str_int ELSE str_int32_t
            ELSE IF x = str_bool
            THEN typified.val = IF java THEN str_boolean ELSE str_bool
            ELSE IF Len(x) > 0 /\ Last(x) = "*"
            THEN /\ typified.raised = "none"
                 /\ typified.val = CatalogMapOf(ButLast(x))
            ELSE IF Len(x) > 0 /\ Last(x) = "?"
            THEN /\ typified.raised = "none"
                 /\ typified.val = IF java THEN ButLast(x)
                                   ELSE str_CatalogTypePtr
            ELSE TRUE

----------------------------------------------------------------------------
(* C2: a token that is not string, int or bool and has no trailing '*' or  *)
(* '?' (the empty token included) aborts the emitter that meets it: the    *)
(* emitter never returns normally, never goes on to another class, and no  *)
(* file holds a line written for that field or for a later field of its    *)
(* class.                                                                  *)
C2_UnrecognizedTokenAborts ==
    \A i \in 1..Len(classes) :
        LET cls == classes[i]
            k == FirstUnrecognized(cls)
            late == {cls.fields[m].name : m \in k..Len(cls.fields)}
        IN  k # 0 =>
              /\ pc \notin {"genjava_return", "gencpp_return", "done"}
              /\ \A f \in FilesOf(javaTree) \cup FilesOf(cppTree) :
                    f.cls = cls.name =>
                       /\ \A j \in 1..Len(f.lines) :
                             f.lines[j].fname \notin late
                       /\ Len(f.lines) > 0 =>
                             Last(f.lines).at \notin {277, 399}
              /\ \A f \in FilesOf(javaTree) : ClassIndex(f.cls) <= i
              /\ \A f \in FilesOf(cppTree) : ClassIndex(f.cls) >= i
              /\ pc = "aborted" =>
                    exc \in {"Exception", "IndexError", "IOError"}

(* The C++ emitter has written the member of a well-typed field and then   *)
(* met an unrecognized token in the same class.                            *)
C2_Witness ==
    /\ pc = "aborted"
    /\ exc = "Exception"
    /\ \E f \in FilesOf(cppTree) :
          /\ HasUnrecognized(ClassNamed(f.cls))
          /\ \E j \in 1..Len(f.lines) : f.lines[j].at = 358

----------------------------------------------------------------------------
(* Reading the emitted files. *)

Project(lines) == [i \in 1..Len(lines) |-> <<lines[i].at, lines[i].fname>>]

Names(lines) == [i \in 1..Len(lines) |-> lines[i].fname]

CompleteJava ==
    {f \in FilesOf(javaTree) : Len(f.lines) > 0 /\ Last(f.lines).at = 277}

FieldsOfKind(cls, kinds) ==
    Flatten([i \in 1..Len(cls.fields) |->
                IF KindOf(cls.fields[i].type) \in kinds
                THEN <<cls.fields[i].name>> ELSE <<>>])

IsClassName(n) == \E i \in 1..Len(classes) : classes[i].name = n

----------------------------------------------------------------------------
(* C3: when a run aborts on an unrecognized type token, nothing has been   *)
(* written for the target being generated: its output directory has not    *)
(* been cleared, no support file has been copied and no class file exists. *)
C3_NothingWrittenBeforeAbort ==
    (pc = "aborted" /\ exc \in {"Exception", "IndexError"}) =>
        LET target == IF cppTree.cleared THEN cppTree ELSE javaTree
        IN  /\ ~target.cleared
            /\ target.support = {}
            /\ DOMAIN target.files = {}

----------------------------------------------------------------------------
(* C4: a run of main is all-or-nothing: an aborted run leaves no class     *)
(* file in either output tree, and a run that returns leaves, for every    *)
(* class, its complete managed file and its complete manual file pair.     *)
C4_AllOrNothing ==
    /\ pc = "aborted" =>
          /\ DOMAIN javaTree.files = {}
          /\ DOMAIN cppTree.files = {}
    /\ pc = "done" =>
          \A i \in 1..Len(classes) :
             /\ \E f \in CompleteJava : f.cls = classes[i].name
             /\ \E f \in FilesOf(cppTree) :
                   /\ f.cls = classes[i].name
                   /\ Len(f.lines) > 0
                   /\ Last(f.lines).at = 399

----------------------------------------------------------------------------
(* C5: a Collection field whose target class is not in the class list is   *)
(* fatal: the run does not complete, and no emitter writes a file for the  *)
(* class that holds the field.  (A target counts as present when either    *)
(* reading of the token, all trailing '*' removed or one removed, names a  *)
(* class.)                                                                 *)
C5_AbsentCollectionTargetIsFatal ==
    \A i \in 1..Len(classes) :
        LET cls == classes[i]
            absent == \E k \in 1..Len(cls.fields) :
                         LET t == cls.fields[k].type
                         IN  /\ KindOf(t) = "Collection"
                             /\ ~IsClassName(ButLast(t))
                             /\ ~IsClassName(rstrip(t, "*"))
        IN  absent =>
              /\ pc # "done"
              /\ \A f \in FilesOf(javaTree) \cup FilesOf(cppTree) :
                    f.cls # cls.name

----------------------------------------------------------------------------
(* C6: in every finished class file the emitted equals holds a comparison  *)
(* (the != test of line 267 or the null-mismatch test of line 269) for     *)
(* each Scalar and Reference field and for no Collection field.            *)
C6_EqualsIgnoresCollections ==
    \A f \in CompleteJava :
        LET cls == ClassNamed(f.cls)
            compared == Names(Pick(f.lines, {267, 269}))
        IN  compared = FieldsOfKind(cls, {"Scalar", "Reference"})

----------------------------------------------------------------------------
(* C7: in every finished class file the names listed by getFields() are    *)
(* exactly the Scalar and Reference fields in descriptor order, the names  *)
(* listed by getChildCollections() are exactly the Collection fields in    *)
(* descriptor order, and every field of the class is in exactly one of the *)
(* two lists, once.                                                        *)
C7_FieldListsPartition ==
    \A f \in CompleteJava :
        LET cls == ClassNamed(f.cls)
            listed == Pick(f.lines, {130})
            children == Pick(f.lines, {140})
            Count(n, ls) == Cardinality({j \in 1..Len(ls) : ls[j].fname = n})
        IN  /\ Names(listed) = FieldsOfKind(cls, {"Scalar", "Reference"})
            /\ Names(children) = FieldsOfKind(cls, {"Collection"})
            /\ \A j \in 1..Len(listed) : listed[j].args = <<listed[j].fname>>
            /\ \A j \in 1..Len(children) :
                  children[j].args = <<children[j].fname>>
            /\ \A k \in 1..Len(cls.fields) :
                  Count(cls.fields[k].name, listed)
                     + Count(cls.fields[k].name, children) = 1

(* A finished class file with a name in each of the two lists. *)
C7_Witness ==
    \E f \in CompleteJava :
        /\ Len(Pick(f.lines, {130})) > 0
        /\ Len(Pick(f.lines, {140})) > 0

----------------------------------------------------------------------------
(* C8: in every finished class file copyFields has exactly one statement   *)
(* per field, in descriptor order, chosen by the kind of the field: the    *)
(* plain assignment for a Scalar, setUnresolved(getPath()) for a           *)
(* Reference, copyFrom for a Collection.                                   *)
C8_CopyFieldsByKind ==
    \A f \in CompleteJava :
        LET cls == ClassNamed(f.cls)
            StatementFor(t) ==
                CASE KindOf(t) = "Scalar" -> 240
                  [] KindOf(t) = "Reference" -> 242
                  [] KindOf(t) = "Collection" -> 244
        IN  Project(Pick(f.lines, {240, 242, 244})) =
               [k \in 1..Len(cls.fields) |->
                   <<StatementFor(cls.fields[k].type), cls.fields[k].name>>]

----------------------------------------------------------------------------
(* C9: in every finished class file the getField switch has, for every     *)
(* field in descriptor order, a case labelled with the field name that     *)
(* returns the call of that field's own getter, the one getter of the      *)
(* class with the called name, and the switch ends in the default that     *)
(* throws "Unknown field".                                                 *)
C9_GetFieldDispatch ==
    \A f \in CompleteJava :
        LET cls == ClassNamed(f.cls)
            switch == Pick(f.lines, {151, 152, 153, 154})
            getters == Pick(f.lines, {166})
        IN  /\ Project(switch) =
                  Flatten([k \in 1..Len(cls.fields) |->
                              <<<<151, cls.fields[k].name>>,
                                <<152, cls.fields[k].name>>>>])
                     \o <<<<153, <<>>>>, <<154, <<>>>>>>
            /\ \A j \in 1..Len(switch) :
                  /\ switch[j].at = 151 => switch[j].args = <<switch[j].fname>>
                  /\ switch[j].at = 152 =>
                        LET called == {g \in 1..Len(getters) :
                                          getters[g].args[2]
                                             = switch[j].args[1]}
                        IN  /\ Cardinality(called) = 1
                            /\ \A g \in called :
                                  getters[g].fname = switch[j].fname

----------------------------------------------------------------------------
(* C10: in every finished class file the case labels of the generic set    *)
(* are exactly the non-collection field names, the names getFields()       *)
(* lists, in descriptor order; every case is closed by its own break       *)
(* before the next case or the default begins, and the switch ends in the  *)
(* default that throws "Unknown field", which is what the name of a        *)
(* Collection field reaches.                                               *)
C10_SetAcceptsNonCollectionFields ==
    \A f \in CompleteJava :
        LET cls == ClassNamed(f.cls)
            switch == Pick(f.lines, 204..226)
            n == Len(switch)
        IN  /\ Names(Pick(switch, {204})) =
                  FieldsOfKind(cls, {"Scalar", "Reference"})
            /\ Names(Pick(switch, {204})) = Names(Pick(f.lines, {130}))
            /\ n >= 2
            /\ switch[n - 1].at = 225
            /\ switch[n].at = 226
            /\ \A j \in 1..n :
                  /\ switch[j].at = 204 => switch[j].args = <<switch[j].fname>>
                  /\ (switch[j].at \in {204, 225} /\ j > 1) =>
                        switch[j - 1].at = 224
                  /\ (switch[j].at \notin {204, 225, 226}) =>
                        switch[j - 1].fname = switch[j].fname
                  /\ switch[j].at = 224 => switch[j + 1].at \in {204, 225}
                  /\ switch[j].at \in {225, 226} => j >= n - 1

(* A finished class file whose set has a case and whose class also has a   *)
(* Collection field.                                                       *)
C10_Witness ==
    \E f \in CompleteJava :
        /\ Len(Pick(f.lines, {204})) > 0
        /\ FieldsOfKind(ClassNamed(f.cls), {"Collection"}) # <<>>

----------------------------------------------------------------------------
(* What the statement written at a source line of genjava does to the     *)
(* storage m_name of its field:                                            *)
(*   185 m_$fname.set(value);            187 m_$fname = value;             *)
(*   209 m_$fname.setUnresolved(value);                                    *)
(*   212 m_$fname = Integer.parseInt(value);                               *)
(*   215 m_$fname = Boolean.parseBoolean(value);                           *)
(*   223 m_$fname = value;               240 other.m_$fname = m_$fname;    *)
(*   242 other.m_$fname.setUnresolved(m_$fname.getPath());                 *)
(*   244 other.m_$fname.copyFrom(m_$fname);                                *)
(* Every other line of the range 185-244 writes no statement on m_$fname.  *)
StorageUse(at) ==
    CASE at = 185 -> "set"
      [] at \in {187, 212, 215, 223, 240} -> "assign"
      [] at \in {209, 242} -> "setUnresolved"
      [] at = 244 -> "copyFrom"
      [] OTHER -> "none"

(* The setters of a finished class file, one <<field, parameter type,      *)
(* use of the storage>> per 'public void set...' line.                     *)
SettersOf(f) ==
    LET heads == {j \in 1..Len(f.lines) : f.lines[j].at = 183}
        idx == SortedSeq(heads)
    IN  [k \in 1..Len(idx) |->
            <<f.lines[idx[k]].fname, f.lines[idx[k]].args[2],
              StorageUse(f.lines[idx[k] + 1].at)>>]

(* C12 as stated: one typed setter per non-collection field, none for a    *)
(* Collection field, and the setter of a Reference field hands its         *)
(* argument to the handle's setUnresolved entry point.                     *)
C12_ReferenceSetterSetsUnresolved ==
    \A f \in CompleteJava :
        LET cls == ClassNamed(f.cls)
            setters == SettersOf(f)
        IN  /\ [k \in 1..Len(setters) |-> setters[k][1]] =
                  FieldsOfKind(cls, {"Scalar", "Reference"})
            /\ \A k \in 1..Len(setters) :
                  \A m \in 1..Len(cls.fields) :
                     (/\ cls.fields[m].name = setters[k][1]
                      /\ KindOf(cls.fields[m].type) = "Reference")
                        => setters[k][3] = "setUnresolved"

(* C12 (amended): every finished class file holds one typed setter per     *)
(* non-collection field, in descriptor order, and none for a Collection    *)
(* field; the setter is named set + capitalize(field name) and takes a     *)
(* value of the field's Java type; for a Reference field that is the       *)
(* target class, and the setter passes the value to the handle's           *)
(* set(value) entry point, neither calling setUnresolved nor assigning to  *)
(* the handle; the setter of a Scalar field assigns.                       *)
C12_ReferenceSetterCallsHandleSet ==
    \A f \in CompleteJava :
        LET cls == ClassNamed(f.cls)
            heads == Pick(f.lines, {183})
        IN  SettersOf(f) =
               Flatten([m \in 1..Len(cls.fields) |->
                   LET t == cls.fields[m].type
                       n == cls.fields[m].name
                   IN  CASE KindOf(t) = "Collection" -> <<>>
                         [] KindOf(t) = "Reference" ->
                               <<<<n, rstrip(t, "?"), "set">>>>
                         [] KindOf(t) = "Scalar" ->
                               <<<<n, javatypify(t).val, "assign">>>>])
            /\ \A j \in 1..Len(heads) :
                  heads[j].args[1] = capitalize(heads[j].fname)

(* A finished class file with the setter of a Reference field, of a class  *)
(* that also has a Collection field.                                       *)
C12_Witness ==
    \E f \in CompleteJava :
        /\ \E k \in 1..Len(SettersOf(f)) : SettersOf(f)[k][3] = "set"
        /\ FieldsOfKind(ClassNamed(f.cls), {"Collection"}) # <<>>

----------------------------------------------------------------------------
(* The header files of the manual backend: a header starts with the line   *)
(* written at 325, a definition file with the line written at 408.         *)
CppHeaders ==
    {f \in FilesOf(cppTree) : Len(f.lines) > 0 /\ f.lines[1].at = 325}

CppSources ==
    {f \in FilesOf(cppTree) : Len(f.lines) > 0 /\ f.lines[1].at = 408}

(* The target class name of a Reference or Collection token: the token     *)
(* without its marker.                                                     *)
TargetOf(t) == ButLast(t)

HasTarget(t) == KindOf(t) \in {"Reference", "Collection"}

(* C13: in every header the forward declarations name exactly the target   *)
(* classes of the class's Reference and Collection fields other than the   *)
(* class itself, each once, in the order of their first field; a class     *)
(* that references or collects itself raises no error: the manual emitter  *)
(* aborts on a class only for an unrecognized token or a file that cannot  *)
(* be opened.                                                              *)
C13_ForwardDeclarations ==
    /\ \A f \in CppHeaders :
          LET cls == ClassNamed(f.cls)
              lines == Pick(f.lines, {338})
              decl == [j \in 1..Len(lines) |-> lines[j].args[1]]
              users(n) == {k \in 1..Len(cls.fields) :
                              /\ HasTarget(cls.fields[k].type)
                              /\ TargetOf(cls.fields[k].type) = n}
              first(n) == CHOOSE k \in users(n) : \A m \in users(n) : k <= m
              targets == {TargetOf(cls.fields[k].type) :
                             k \in {m \in 1..Len(cls.fields) :
                                       HasTarget(cls.fields[m].type)}}
          IN  /\ {decl[j] : j \in 1..Len(decl)} = targets \ {cls.name}
              /\ Len(decl) = Cardinality(targets \ {cls.name})
              /\ \A i, j \in 1..Len(decl) :
                    i < j => first(decl[i]) < first(decl[j])
    /\ (pc = "aborted" /\ cppTree.cleared /\ exc # "IOError")
          => HasUnrecognized(classes[ci])

(* A header with a forward declaration, of a class that also refers to     *)
(* itself, written by a run that completed.                                *)
C13_Witness ==
    /\ pc = "done"
    /\ \E f \in CppHeaders :
          LET cls == ClassNamed(f.cls)
          IN  /\ Len(Pick(f.lines, {338})) > 0
              /\ \E k \in 1..Len(cls.fields) :
                    /\ HasTarget(cls.fields[k].type)
                    /\ TargetOf(cls.fields[k].type) = cls.name

----------------------------------------------------------------------------
(* Reading an emitted destructor.  The definition files that hold a whole  *)
(* destructor are those with the closing line written at 461.              *)
WithDestructor ==
    {f \in CppSources : \E j \in 1..Len(f.lines) : f.lines[j].at = 461}

(* The destructor holds, for every Collection field in descriptor order    *)
(* and for no other field, the block of lines 455-460 on the field's own   *)
(* container m_name: an iterator declared at begin(), the loop up to       *)
(* end() that deletes the entry's child and advances the iterator, and     *)
(* the clear() after the loop.                                             *)
DestructorBlocksByField(f) ==
    LET cls == ClassNamed(f.cls)
        d == Pick(f.lines, 455..460)
    IN  /\ Project(d) =
              Flatten([k \in 1..Len(cls.fields) |->
                  IF KindOf(cls.fields[k].type) = "Collection"
                  THEN [m \in 1..6 |-> <<454 + m, cls.fields[k].name>>]
                  ELSE <<>>])
        /\ \A j \in 1..Len(d) :
              d[j].at = 455 =>
                 LET itr == d[j].args[2]
                     container == <<"m", "_">> \o d[j].fname
                 IN  /\ d[j].args[3] = container
                     /\ d[j + 1].args = <<itr, container>>
                     /\ d[j + 2].args = <<itr>>
                     /\ d[j + 3].args = <<itr>>
                     /\ d[j + 5].args = <<container>>

(* C14: every emitted destructor handles every Collection field and only   *)
(* Collection fields: for each, in descriptor order, it walks the field's  *)
(* own container from begin() to end(), deletes the child of each entry    *)
(* once and then clears the container; it holds no statement for a Scalar  *)
(* or Reference field.                                                     *)
C14_DestructorFreesCollections ==
    \A f \in WithDestructor : DestructorBlocksByField(f)

(* A definition file with a whole destructor, of a class that has a        *)
(* Collection field, whose block is in the destructor, and a Reference     *)
(* field.                                                                  *)
C14_Witness ==
    \E f \in WithDestructor :
        LET cls == ClassNamed(f.cls)
        IN  /\ \E k \in 1..Len(cls.fields) :
                  /\ KindOf(cls.fields[k].type) = "Collection"
                  /\ \E j \in 1..Len(f.lines) :
                        /\ f.lines[j].at = 457
                        /\ f.lines[j].fname = cls.fields[k].name
            /\ \E k \in 1..Len(cls.fields) :
                  KindOf(cls.fields[k].type) = "Reference"

----------------------------------------------------------------------------
(* Running the emitted child dispatchers.  A store gives, for every        *)
(* container m_name of the class, the set of child names it holds.         *)
Children == {"c"}

NoField == <<"z">>

ContainersOf(cls) ==
    {<<"m", "_">> \o cls.fields[k].name :
        k \in {m \in 1..Len(cls.fields) :
                  KindOf(cls.fields[m].type) = "Collection"}}

StoresOf(cls) == [ContainersOf(cls) -> SUBSET Children]

CollectionNamesOf(cls) ==
    {cls.fields[k].name :
        k \in {m \in 1..Len(cls.fields) :
                  KindOf(cls.fields[m].type) = "Collection"}}

NamesToTry(cls) ==
    {cls.fields[k].name : k \in 1..Len(cls.fields)} \cup {NoField}

(* The first line written at one of the given source lines, from j on. *)
NextAt(body, j, ats) ==
    CHOOSE m \in j..Len(body) :
        /\ body[m].at \in ats
        /\ \A i \in j..(m - 1) : body[i].at \notin ats

(* The emitted addChild (lines 480-489), run from its line j:              *)
(*   485  if (collectionName.compare("$pubname") == 0) {                   *)
(*   486      CatalogType *exists = $privname.get(childName);              *)
(*   487      if (exists) return NULL;                                     *)
(*   488      return $privname.add(childName); }                           *)
(*   489  return NULL;                                                     *)
RECURSIVE RunAddChild(_, _, _, _, _, _)
RunAddChild(body, j, coll, child, store, exists) ==
    LET l == body[j]
    IN  CASE l.at = 480 -> RunAddChild(body, j + 1, coll, child, store, FALSE)
          [] l.at = 485 ->
                IF l.args[1] = coll
                THEN RunAddChild(body, j + 1, coll, child, store, FALSE)
                ELSE RunAddChild(body, NextAt(body, j, {488}) + 1,
                                 coll, child, store, FALSE)
          [] l.at = 486 ->
                RunAddChild(body, j + 1, coll, child, store,
                            child \in store[l.args[1]])
          [] l.at = 487 ->
                IF exists THEN [ret |-> "NULL", store |-> store]
                ELSE RunAddChild(body, j + 1, coll, child, store, exists)
          [] l.at = 488 ->
                [ret |-> "added",
                 store |-> [store EXCEPT ![l.args[1]] = @ \cup {child}]]
          [] l.at = 489 -> [ret |-> "NULL", store |-> store]

WithAddChild ==
    {f \in CppSources : \E j \in 1..Len(f.lines) : f.lines[j].at = 489}

(* C15: the emitted addChild never overwrites.  Called with the name of a  *)
(* Collection field and a child name the field's container already holds,  *)
(* it returns NULL and changes nothing; with a child name the container    *)
(* does not hold, it returns what the container's add returns, only that   *)
(* container gains the child, and a second call with the same two names    *)
(* returns NULL; called with any other collection name it returns NULL     *)
(* and changes nothing.                                                    *)
C15_AddChildNeverOverwrites ==
    \A f \in WithAddChild :
        LET cls == ClassNamed(f.cls)
            body == Pick(f.lines, 480..489)
        IN  \A coll \in NamesToTry(cls), child \in Children,
               store \in StoresOf(cls) :
               LET r == RunAddChild(body, 1, coll, child, store, FALSE)
                   container == <<"m", "_">> \o coll
               IN  IF coll \in CollectionNamesOf(cls)
                   THEN IF child \in store[container]
                        THEN r = [ret |-> "NULL", store |-> store]
                        ELSE /\ r.ret = "added"
                             /\ r.store = [store EXCEPT ![container] =
                                                     @ \cup {child}]
                             /\ RunAddChild(body, 1, coll, child, r.store,
                                            FALSE)
                                   = [ret |-> "NULL", store |-> r.store]
                   ELSE r = [ret |-> "NULL", store |-> store]

(* A definition file whose addChild dispatches on a Collection field, of a *)
(* class that also has a field that is not a Collection.                   *)
C15_Witness ==
    \E f \in WithAddChild :
        /\ Len(Pick(f.lines, {485})) >= 1
        /\ Cardinality(NamesToTry(ClassNamed(f.cls))
                          \ CollectionNamesOf(ClassNamed(f.cls))) >= 2

----------------------------------------------------------------------------
(* The keys the emitted constructor registers in m_childCollections        *)
(* (line 442: m_childCollections["$pubname"] = &$privname;).               *)
RegisteredCollections(f) ==
    LET regs == Pick(f.lines, {442})
    IN  {regs[j].args[1] : j \in 1..Len(regs)}

(* The emitted removeChild (lines 502-512), run from its line j:           *)
(*   503  assert (m_childCollections.find(collectionName) != ...end());    *)
(*   508  if (collectionName.compare("$pubname") == 0) {                   *)
(*   509      return $privname.remove(childName);                          *)
(*   510  }                                                                *)
(*   511  return false;                                                    *)
(* assert is the macro of <cassert> (line 411): a build with NDEBUG        *)
(* defined compiles line 503 to nothing.  Nothing under src/ fixes the     *)
(* build flags, so both builds are outcomes of the emitted text.           *)
RECURSIVE RunRemoveChild(_, _, _, _, _, _, _)
RunRemoveChild(body, j, keys, coll, child, store, ndebug) ==
    LET l == body[j]
    IN  CASE l.at = 502 ->
                RunRemoveChild(body, j + 1, keys, coll, child, store, ndebug)
          [] l.at = 503 ->
                IF ~ndebug /\ coll \notin keys
                THEN [ret |-> "assertion failure", store |-> store]
                ELSE RunRemoveChild(body, j + 1, keys, coll, child, store,
                                    ndebug)
          [] l.at = 508 ->
                IF l.args[1] = coll
                THEN RunRemoveChild(body, j + 1, keys, coll, child, store,
                                    ndebug)
                ELSE RunRemoveChild(body, NextAt(body, j, {510}) + 1,
                                    keys, coll, child, store, ndebug)
          [] l.at = 509 ->
                [ret |-> IF child \in store[l.args[1]] THEN "true"
                         ELSE "false",
                 store |-> [store EXCEPT ![l.args[1]] = @ \ {child}]]
          [] l.at = 511 -> [ret |-> "false", store |-> store]

WithRemoveChild ==
    {f \in CppSources : \E j \in 1..Len(f.lines) : f.lines[j].at = 512}

----------------------------------------------------------------------------
(* C17: once check_verb_options has run, the parse has aborted with the    *)
(* 'Missing required option' message if and only if some required option   *)
(* of the verb has no value in the parsed options; in particular it has    *)
(* not when every required option was given on the command line.           *)
C17_AbortsIffRequiredOptionMissing ==
    (cli.pc # "idle" /\ cli.checked) =>
        LET lacking == {i \in 1..Len(cli.options) :
                           cli.options[i].required /\ cli.opts[i] = "None"}
            aborted == /\ cli.pc = "aborted"
                       /\ cli.message.text = "Missing required"
                       /\ cli.message.type_name = "option"
        IN  aborted <=> lacking # {}

----------------------------------------------------------------------------
(* The source lines, among the given ones, that wrote a line for the       *)
(* field named n, in the order of the file.                                *)
WrittenFor(f, n, ats) ==
    LET OfField(l) == l.fname = n /\ l.at \in ats
        ls == SelectSeq(f.lines, OfField)
    IN  [j \in 1..Len(ls) |-> ls[j].at]

(* C18: in every finished class file, every field whose token ends in '?'  *)
(* is handled as a Reference by every section, whatever its target class:  *)
(* handle storage (line 107), get() in the getter (168), set(value) in the *)
(* setter (185), setUnresolved in the generic set (209), the path copy in  *)
(* copyFields (242) and the null-mismatch test followed by equals() in     *)
(* equals (269, 270).                                                      *)
C18_ReferenceInEverySection ==
    \A f \in CompleteJava :
        LET cls == ClassNamed(f.cls)
        IN  \A k \in 1..Len(cls.fields) :
               LET n == cls.fields[k].name
               IN  KindOf(cls.fields[k].type) = "Reference" =>
                      /\ WrittenFor(f, n, {105, 107, 109}) = <<107>>
                      /\ WrittenFor(f, n, {168, 170}) = <<168>>
                      /\ WrittenFor(f, n, {185, 187}) = <<185>>
                      /\ WrittenFor(f, n, {209, 212, 215, 223}) = <<209>>
                      /\ WrittenFor(f, n, {240, 242, 244}) = <<242>>
                      /\ WrittenFor(f, n, {267, 269, 270}) = <<269, 270>>

----------------------------------------------------------------------------
(* C19: two classes with different names have different header paths and   *)
(* different definition paths in the manual backend, so that when gencpp   *)
(* has returned, the files at each class's paths hold that class's own     *)
(* output.                                                                 *)
C19_ClassesShareNoCppFile ==
    pc \in {"gencpp_return", "done"} =>
       /\ \A i, j \in 1..Len(classes) :
             classes[i].name # classes[j].name =>
                /\ hpath(classes[i]) # hpath(classes[j])
                /\ cpppath(classes[i]) # cpppath(classes[j])
       /\ \A i \in 1..Len(classes) :
             /\ hpath(classes[i]) \in DOMAIN cppTree.files
             /\ cppTree.files[hpath(classes[i])].cls = classes[i].name
             /\ cpppath(classes[i]) \in DOMAIN cppTree.files
             /\ cppTree.files[cpppath(classes[i])].cls = classes[i].name

----------------------------------------------------------------------------
(* The target class name javatypify and cpptypify read from a token: the   *)
(* token with every trailing marker removed.                               *)
DeclaredTarget(t) == rstrip(t, Last(t))

(* The arguments of the lines written for field n at the given line. *)
ArgsFor(f, n, at) ==
    LET OfField(l) == l.fname = n /\ l.at = at
        ls == SelectSeq(f.lines, OfField)
    IN  {ls[j].args : j \in 1..Len(ls)}

(* C20: for every Collection or Reference field, every place that derives  *)
(* the target class name from the token yields the name of the declared    *)
(* type: the element class given to the managed collection constructor     *)
(* (line 121), the manual forward declaration (338) unless the target is   *)
(* the class itself, the manual include (419) and the element type of the  *)
(* destructor's iterator (455).                                            *)
C20_OneTargetNamePerToken ==
    /\ \A f \in CompleteJava :
          LET cls == ClassNamed(f.cls)
          IN  \A k \in 1..Len(cls.fields) :
                 LET t == cls.fields[k].type
                 IN  KindOf(t) = "Collection" =>
                        \A a \in ArgsFor(f, cls.fields[k].name, 121) :
                           /\ a[2] = CatalogMapOf(DeclaredTarget(t))
                           /\ a[4] = DeclaredTarget(t)
    /\ \A f \in CppHeaders :
          LET cls == ClassNamed(f.cls)
              decls == Pick(f.lines, {338})
          IN  \A k \in 1..Len(cls.fields) :
                 LET t == cls.fields[k].type
                 IN  (HasTarget(t) /\ DeclaredTarget(t) # cls.name) =>
                        \E j \in 1..Len(decls) :
                           decls[j].args[1] = DeclaredTarget(t)
    /\ \A f \in WithDestructor :
          LET cls == ClassNamed(f.cls)
              incl == Pick(f.lines, {419})
          IN  \A k \in 1..Len(cls.fields) :
                 LET t == cls.fields[k].type
                 IN  /\ HasTarget(t) =>
                           \E j \in 1..Len(incl) :
                              incl[j].args[1] = lower(DeclaredTarget(t))
                     /\ KindOf(t) = "Collection" =>
                           \A a \in ArgsFor(f, cls.fields[k].name, 455) :
                              a[1] = DeclaredTarget(t)

----------------------------------------------------------------------------
(* C21: in every finished class file the getters (line 166) have pairwise  *)
(* distinct method names, the setters (line 183) have pairwise distinct    *)
(* method names, and the getter each getField case calls (line 152) is the *)
(* getter of the case's own field.                                         *)
C21_DistinctAccessorNames ==
    \A f \in CompleteJava :
        LET getters == Pick(f.lines, {166})
            setters == Pick(f.lines, {183})
            cases == Pick(f.lines, {152})
        IN  /\ \A i, j \in 1..Len(getters) :
                  i # j => getters[i].args[2] # getters[j].args[2]
            /\ \A i, j \in 1..Len(setters) :
                  i # j => setters[i].args[1] # setters[j].args[1]
            /\ \A c \in 1..Len(cases), g \in 1..Len(getters) :
                  getters[g].args[2] = cases[c].args[1] =>
                     getters[g].fname = cases[c].fname

----------------------------------------------------------------------------
(* C22: in every emitted destructor the iterator variables declared for    *)
(* the Collection fields (line 455) have pairwise distinct names.          *)
C22_DistinctDestructorIterators ==
    \A f \in WithDestructor :
        LET decls == Pick(f.lines, {455})
        IN  \A i, j \in 1..Len(decls) :
               decls[i].fname # decls[j].fname =>
                  decls[i].args[2] # decls[j].args[2]

====
